---- MODULE Spec2Model ----
(***************************************************************************)
(* A model of arcade/examples/line_of_sight.py (class MyGame) and of the   *)
(* framework pieces it calls: the 2D camera's view rectangle, the simple   *)
(* physics engine and the line-of-sight query; and of the window handle    *)
(* and the run loop of arcade/window_commands.py.                          *)
(*                                                                         *)
(* Coordinates are integers (pixels); y grows upward.  A point or a camera *)
(* position is a pair <<x, y>>.  A sprite is a record with its centre and  *)
(* its size; its edges are derived from them.                              *)
(***************************************************************************)
EXTENDS Integers, Sequences, FiniteSets

VARIABLES
    player,         \* self.player: centre, velocity (change_x/y) and size
    enemy_list,     \* self.enemy_list: sequence of sprites
    wall_list,      \* self.wall_list: sequence of sprites
    left_pressed,   \* self.left_pressed
    right_pressed,  \* self.right_pressed
    up_pressed,     \* self.up_pressed
    down_pressed,   \* self.down_pressed
    cam,            \* self.cam: [position |-> <<x, y>>]
    cam_calls,      \* what the last on_update did to self.cam, in order
    scroll,         \* the scrolling part of the last on_update: the position
                    \* read at its start and the branches it took
    frames,         \* number of on_update calls so far
    lines,          \* the lines drawn by the last on_draw
    key_events,     \* for each key, the last event it had: "none", "press"
                    \* or "release"
    _window,        \* window_commands._window: a window or None
    windows,        \* the windows: headless, context, current_view and the
                    \* number of close() calls each has had
    environ,        \* os.environ's ARCADE_TEST and sys.platform
    run,            \* the call of run(): where it is, the branch it took,
                    \* the window it got, the active object of the iteration
                    \* and the number of iterations begun
    log             \* the calls of the window functions and what they did,
                    \* and the calls run() made, in order

\* The game
gvars == <<player, enemy_list, wall_list, left_pressed, right_pressed,
           up_pressed, down_pressed, cam, cam_calls, scroll, frames, lines>>

\* The window commands
wvars == <<_window, windows, environ, run, log>>

vars == <<gvars, key_events, wvars>>

----------------------------------------------------------------------------
(* Program constants *)

SCREEN_WIDTH == 800
SCREEN_HEIGHT == 600
MOVEMENT_SPEED == 5
VIEWPORT_MARGIN == 250

\* Sizes of the scaled sprites (image size times SPRITE_SCALING = 0.5).
PLAYER_WIDTH == 48
PLAYER_HEIGHT == 64
WALL_SIZE == 64
\* setup(): spacing = 200
WALL_SPACING == 200

(* Bounds of the model *)

\* The headless loop of run() begins at most MaxIterations iterations.
MaxIterations == 2

\* set_window, get_window and close_window are called at most MaxCalls times
\* in all.
MaxCalls == 5

\* on_update is called at most MaxFrames times.
MaxFrames == 2

Keys == {"UP", "DOWN", "LEFT", "RIGHT", "SPACE"}

----------------------------------------------------------------------------
(* Sprites: edges of the axis-aligned box *)

Left(s) == s.center_x - s.width \div 2
Right(s) == s.center_x + s.width \div 2
Bottom(s) == s.center_y - s.height \div 2
Top(s) == s.center_y + s.height \div 2

Position(s) == <<s.center_x, s.center_y>>

Sprite(x, y, w, h) ==
    [center_x |-> x, center_y |-> y, change_x |-> 0, change_y |-> 0,
     width |-> w, height |-> h]

----------------------------------------------------------------------------
(* Camera2D: the view rectangle is centred on the position and has the    *)
(* size of the window (zoom 1).                                            *)

cam_top_left(c) ==
    <<c.position[1] - SCREEN_WIDTH \div 2, c.position[2] + SCREEN_HEIGHT \div 2>>

cam_bottom_right(c) ==
    <<c.position[1] + SCREEN_WIDTH \div 2, c.position[2] - SCREEN_HEIGHT \div 2>>

\* Camera2D(): a new camera looks at the centre of the window.
NewCamera == [position |-> <<SCREEN_WIDTH \div 2, SCREEN_HEIGHT \div 2>>]

----------------------------------------------------------------------------
(* PhysicsEngineSimple.update: the player moves by its velocity, one axis  *)
(* at a time; a move that would make it overlap a wall is not made.        *)

Overlaps(a, b) ==
    /\ Left(a) < Right(b)
    /\ Right(a) > Left(b)
    /\ Bottom(a) < Top(b)
    /\ Top(a) > Bottom(b)

HitsWall(s, walls) == \E i \in 1..Len(walls) : Overlaps(s, walls[i])

physics_update(p, walls) ==
    LET px == [p EXCEPT !.center_x = p.center_x + p.change_x]
        p1 == IF HitsWall(px, walls) THEN p ELSE px
        py == [p1 EXCEPT !.center_y = p1.center_y + p1.change_y]
    IN  IF HitsWall(py, walls) THEN p1 ELSE py

----------------------------------------------------------------------------
(* on_update, lines 132-143: velocity from the key flags *)

KeyChangeY(up, down) ==
    IF up /\ ~down THEN MOVEMENT_SPEED
    ELSE IF down /\ ~up THEN -MOVEMENT_SPEED
    ELSE 0

\* A variant without the test of the opposite key: left wins.
KeyChangeXLeftWins(left, right) ==
    IF left THEN -MOVEMENT_SPEED
    ELSE IF right /\ ~left THEN MOVEMENT_SPEED
    ELSE 0

KeyChangeX(left, right) ==
    IF left /\ ~right THEN -MOVEMENT_SPEED
    ELSE IF right /\ ~left THEN MOVEMENT_SPEED
    ELSE 0

----------------------------------------------------------------------------
(* on_update, lines 147-185: scrolling.  A scrolling state s holds the     *)
(* local variables: s.changed, s.pos, and s.taken, the set of branches     *)
(* entered so far.  The boundaries are computed from top_left and          *)
(* bottom_right, which are read once, before any branch.                   *)

left_boundary(top_left) == top_left[1] + VIEWPORT_MARGIN
top_boundary(top_left) == top_left[2] - VIEWPORT_MARGIN
\* A slip of index: the y of bottom_right in place of its x.
right_boundary_of_y(bottom_right) == bottom_right[2] - VIEWPORT_MARGIN
right_boundary(bottom_right) == bottom_right[1] - VIEWPORT_MARGIN
bottom_boundary(bottom_right) == bottom_right[2] + VIEWPORT_MARGIN

\* Variants of the four branches, each with one slip.
\* <= for <: an edge on the boundary scrolls.
ScrollLeftInclusive(s, p, top_left) ==
    IF Left(p) <= left_boundary(top_left)
    THEN [changed |-> TRUE,
          pos |-> <<s.pos[1] + (Left(p) - left_boundary(top_left)), s.pos[2]>>,
          taken |-> s.taken \cup {"left"}]
    ELSE s

\* One pixel too far.
ScrollLeftOvershoot(s, p, top_left) ==
    IF Left(p) < left_boundary(top_left)
    THEN [changed |-> TRUE,
          pos |-> <<s.pos[1] + (Left(p) - left_boundary(top_left)) - 1, s.pos[2]>>,
          taken |-> s.taken \cup {"left"}]
    ELSE s

\* The correction lands on the x coordinate.
ScrollUpWrongAxis(s, p, top_left) ==
    IF Top(p) > top_boundary(top_left)
    THEN [changed |-> TRUE,
          pos |-> <<s.pos[1] + (Top(p) - top_boundary(top_left)), s.pos[2]>>,
          taken |-> s.taken \cup {"up"}]
    ELSE s

\* The correction is measured from the view's edge, not from the boundary.
ScrollRightFromEdge(s, p, bottom_right) ==
    IF Right(p) > right_boundary(bottom_right)
    THEN [changed |-> TRUE,
          pos |-> <<s.pos[1] + (Right(p) - bottom_right[1]), s.pos[2]>>,
          taken |-> s.taken \cup {"right"}]
    ELSE s

\* The correction has the wrong sign.
ScrollDownWrongSign(s, p, bottom_right) ==
    IF Bottom(p) < bottom_boundary(bottom_right)
    THEN [changed |-> TRUE,
          pos |-> <<s.pos[1], s.pos[2] - (Bottom(p) - bottom_boundary(bottom_right))>>,
          taken |-> s.taken \cup {"down"}]
    ELSE s

ScrollLeft(s, p, top_left) ==
    IF Left(p) < left_boundary(top_left)
    THEN [changed |-> TRUE,
          pos |-> <<s.pos[1] + (Left(p) - left_boundary(top_left)), s.pos[2]>>,
          taken |-> s.taken \cup {"left"}]
    ELSE s

ScrollUp(s, p, top_left) ==
    IF Top(p) > top_boundary(top_left)
    THEN [changed |-> TRUE,
          pos |-> <<s.pos[1], s.pos[2] + (Top(p) - top_boundary(top_left))>>,
          taken |-> s.taken \cup {"up"}]
    ELSE s

ScrollRight(s, p, bottom_right) ==
    IF Right(p) > right_boundary(bottom_right)
    THEN [changed |-> TRUE,
          pos |-> <<s.pos[1] + (Right(p) - right_boundary(bottom_right)), s.pos[2]>>,
          taken |-> s.taken \cup {"right"}]
    ELSE s

ScrollDown(s, p, bottom_right) ==
    IF Bottom(p) < bottom_boundary(bottom_right)
    THEN [changed |-> TRUE,
          pos |-> <<s.pos[1], s.pos[2] + (Bottom(p) - bottom_boundary(bottom_right))>>,
          taken |-> s.taken \cup {"down"}]
    ELSE s

ManageScrolling(p, c) ==
    LET s0 == [changed |-> FALSE, pos |-> c.position, taken |-> {}]
        top_left == cam_top_left(c)
        bottom_right == cam_bottom_right(c)
        s1 == ScrollLeft(s0, p, top_left)
        s2 == ScrollUp(s1, p, top_left)
        s3 == ScrollRight(s2, p, bottom_right)
    IN  ScrollDown(s3, p, bottom_right)

\* Lines 183-185: what is done to the camera.
CameraCalls(s) == IF s.changed THEN <<"set_position", "use">> ELSE <<>>

on_update ==
    /\ frames < MaxFrames
    /\ LET p0 == [player EXCEPT !.change_x = KeyChangeX(left_pressed, right_pressed),
                                !.change_y = KeyChangeY(up_pressed, down_pressed)]
           p1 == physics_update(p0, wall_list)
           s == ManageScrolling(p1, cam)
       IN  /\ player' = p1
           /\ cam' = IF s.changed THEN [cam EXCEPT !.position = s.pos] ELSE cam
           /\ cam_calls' = CameraCalls(s)
           /\ scroll' = [pos0 |-> cam.position, taken |-> s.taken]
    /\ frames' = frames + 1
    /\ UNCHANGED <<enemy_list, wall_list, left_pressed, right_pressed,
                   up_pressed, down_pressed, lines>>

----------------------------------------------------------------------------
(* on_key_press / on_key_release *)

on_key_press(key) ==
    /\ up_pressed' = IF key = "UP" THEN TRUE ELSE up_pressed
    /\ down_pressed' = IF key = "DOWN" THEN TRUE ELSE down_pressed
    /\ left_pressed' = IF key = "LEFT" THEN TRUE ELSE left_pressed
    /\ right_pressed' = IF key = "RIGHT" THEN TRUE ELSE right_pressed
    /\ UNCHANGED <<player, enemy_list, wall_list, cam, cam_calls, scroll,
                   frames, lines>>

\* A variant with a slip of copying: releasing DOWN clears up_pressed.
on_key_release_slip(key) ==
    /\ up_pressed' = IF key \in {"UP", "DOWN"} THEN FALSE ELSE up_pressed
    /\ down_pressed' = down_pressed
    /\ left_pressed' = IF key = "LEFT" THEN FALSE ELSE left_pressed
    /\ right_pressed' = IF key = "RIGHT" THEN FALSE ELSE right_pressed
    /\ UNCHANGED <<player, enemy_list, wall_list, cam, cam_calls, scroll,
                   frames, lines>>

on_key_release(key) ==
    /\ up_pressed' = IF key = "UP" THEN FALSE ELSE up_pressed
    /\ down_pressed' = IF key = "DOWN" THEN FALSE ELSE down_pressed
    /\ left_pressed' = IF key = "LEFT" THEN FALSE ELSE left_pressed
    /\ right_pressed' = IF key = "RIGHT" THEN FALSE ELSE right_pressed
    /\ UNCHANGED <<player, enemy_list, wall_list, cam, cam_calls, scroll,
                   frames, lines>>

KeyPress == \E key \in Keys : on_key_press(key)
KeyRelease == \E key \in Keys : on_key_release(key)

----------------------------------------------------------------------------
(* has_line_of_sight(observer, target, walls, max_distance)                *)
(*                                                                         *)
(* The slab method: the segment is observer + t * (target - observer) for  *)
(* t in [0, 1]; the interval of t is narrowed by the four half-planes of   *)
(* an occluder, with open bounds, so touching is not crossing.  A value of *)
(* t is a fraction <<n, d>> with d > 0.  max_distance is <<>> when it is   *)
(* not given and <<d>> when it is.                                         *)

Frac(n, d) == IF d < 0 THEN <<-n, -d>> ELSE <<n, d>>
FracLess(a, b) == a[1] * b[2] < b[1] * a[2]
FracMax(a, b) == IF FracLess(a, b) THEN b ELSE a
FracMin(a, b) == IF FracLess(b, a) THEN b ELSE a

\* Narrow the interval iv to the t with p * t < q.
Clip(iv, p, q) ==
    IF ~iv.ok THEN iv
    ELSE IF p = 0 THEN [iv EXCEPT !.ok = (q > 0)]
    ELSE IF p < 0 THEN [iv EXCEPT !.t0 = FracMax(iv.t0, Frac(q, p))]
    ELSE [iv EXCEPT !.t1 = FracMin(iv.t1, Frac(q, p))]

\* The segment's t-interval inside the occluder w (x > left, x < right,
\* y > bottom, y < top).
ClipToBox(observer, target, w) ==
    LET dx == target[1] - observer[1]
        dy == target[2] - observer[2]
        i0 == [ok |-> TRUE, t0 |-> <<0, 1>>, t1 |-> <<1, 1>>]
        i1 == Clip(i0, -dx, observer[1] - Left(w))
        i2 == Clip(i1, dx, Right(w) - observer[1])
        i3 == Clip(i2, -dy, observer[2] - Bottom(w))
    IN  Clip(i3, dy, Top(w) - observer[2])

\* Variants of the emptiness test, each with one slip.
\* The entry point must lie after the observer: an observer on or inside
\* the occluder is not counted.
IntervalNonEmptyAfterStart(iv) ==
    iv.ok /\ FracLess(iv.t0, iv.t1) /\ FracLess(<<0, 1>>, iv.t0)

\* <= for <: a single point of contact counts as crossing.
IntervalNonEmptyClosed(iv) == iv.ok /\ ~FracLess(iv.t1, iv.t0)

IntervalNonEmpty(iv) == iv.ok /\ FracLess(iv.t0, iv.t1)

Blocks(observer, target, w) ==
    IF w.width = 0 \/ w.height = 0
    THEN FALSE
    ELSE IntervalNonEmpty(ClipToBox(observer, target, w))

\* The occluders are tested in order; the first that blocks ends the scan.
RECURSIVE AnyBlocks(_, _, _)
AnyBlocks(observer, target, walls) ==
    IF walls = <<>> THEN FALSE
    ELSE IF Blocks(observer, target, Head(walls)) THEN TRUE
    ELSE AnyBlocks(observer, target, Tail(walls))

ExceedsCutoff(observer, target, max_distance) ==
    LET dx == target[1] - observer[1]
        dy == target[2] - observer[2]
    IN  /\ max_distance # <<>>
        /\ dx * dx + dy * dy > max_distance[1] * max_distance[1]

\* A variant without the test for observer = target.
has_line_of_sight_no_shortcut(observer, target, walls, max_distance) ==
    IF ExceedsCutoff(observer, target, max_distance) THEN FALSE
    ELSE ~AnyBlocks(observer, target, walls)

has_line_of_sight(observer, target, walls, max_distance) ==
    IF ExceedsCutoff(observer, target, max_distance) THEN FALSE
    ELSE IF observer = target THEN TRUE
    ELSE ~AnyBlocks(observer, target, walls)

----------------------------------------------------------------------------
(* on_draw, lines 112-124: one line per enemy, red when the player sees it *)

\* A variant with the two colours exchanged.
LineColorSwapped(observer, target, walls) ==
    IF has_line_of_sight(observer, target, walls, <<>>) THEN "WHITE" ELSE "RED"

LineColor(observer, target, walls) ==
    IF has_line_of_sight(observer, target, walls, <<>>) THEN "RED" ELSE "WHITE"

DrawnLine(p, enemy, walls) ==
    [x1 |-> p.center_x, y1 |-> p.center_y,
     x2 |-> enemy.center_x, y2 |-> enemy.center_y,
     color |-> LineColor(Position(p), Position(enemy), walls)]

on_draw ==
    /\ lines' = [i \in 1..Len(enemy_list) |-> DrawnLine(player, enemy_list[i], wall_list)]
    /\ UNCHANGED <<player, enemy_list, wall_list, left_pressed, right_pressed,
                   up_pressed, down_pressed, cam, cam_calls, scroll, frames>>

----------------------------------------------------------------------------
(* window_commands.py: the handle of the current window *)

None == "None"

\* The windows there are: the game's and another one.
Windows == {"game", "other"}

NewWindow(headless, context, view) ==
    [headless |-> headless, context |-> context, current_view |-> view,
     closed |-> 0]

NoRun == [pc |-> "idle", mode |-> None, window |-> None, active |-> None,
          iterations |-> 0]

\* A log entry: a call (of set_window, get_window, close_window) with its
\* argument or result, or something a call did.
Entry(op, arg) == [op |-> op, arg |-> arg]

CallOps == {"set_window", "get_window", "close_window"}

Calls(l) == Cardinality({i \in 1..Len(l) : l[i].op \in CallOps})

\* get_window, lines 63-71: the result, RuntimeError when it raises.
\* A variant that hands out None.
GetWindowNoRaise(handle) == handle

GetWindowResult(handle) ==
    IF handle = None THEN "RuntimeError" ELSE handle

get_window ==
    /\ Calls(log) < MaxCalls
    /\ log' = Append(log, Entry("get_window", GetWindowResult(_window)))
    /\ UNCHANGED <<_window, windows, environ, run>>

set_window(window) ==
    /\ Calls(log) < MaxCalls
    /\ _window' = window
    /\ log' = Append(log, Entry("set_window", window))
    /\ UNCHANGED <<windows, environ, run>>

\* Window.close(): counted, and the window's context is gone.
WindowClose(w) == [w EXCEPT !.closed = @ + 1, !.context = FALSE]

\* close_window, line 96: the handle after closing.
\* A variant that keeps the handle.
HandleKept(handle) == handle

HandleAfterClose(handle) == None

close_window ==
    /\ Calls(log) < MaxCalls
    /\ IF _window = None
       THEN /\ log' = Append(log, Entry("close_window", None))
            /\ UNCHANGED <<_window, windows>>
       ELSE /\ windows' = [windows EXCEPT ![_window] = WindowClose(@)]
            /\ _window' = HandleAfterClose(_window)
            /\ log' = log \o <<Entry("close_window", _window),
                                Entry("close", _window),
                                Entry("clear_handle", _window),
                                Entry("gc.collect", None)>>
    /\ UNCHANGED <<environ, run>>

SetWindow == \E window \in Windows \cup {None} : set_window(window)

----------------------------------------------------------------------------
(* window_commands.py: run().  One step per call that run() makes.  A      *)
(* callback (on_update, on_draw) is code of the window or the view: it may *)
(* close the window, which ends its context, and it may show or hide a     *)
(* view.  A log entry of run() holds the call, its target, the delta time  *)
(* passed, the window's context and view when the call was made, and       *)
(* whether the context was lost during the call.                           *)

RunEntry(op, target, dt, w, lost) ==
    [op |-> op, arg |-> target, dt |-> dt, ctx |-> w.context,
     view |-> w.current_view, lost |-> lost]

Views == {None, "view"}

\* Line 115: os.environ.get('ARCADE_TEST') is truthy.
EnvSet(value) == value # None /\ value # ""

\* Lines 115-142: the branch run() takes.
\* A variant that looks at headless first.
RunModeHeadlessFirst(test, headless) ==
    IF headless THEN "headless"
    ELSE IF EnvSet(test) THEN "test"
    ELSE "event_loop"

RunMode(test, headless) ==
    IF EnvSet(test) THEN "test"
    ELSE IF headless THEN "headless"
    ELSE "event_loop"

\* Line 128: the loop goes on.
\* A variant that loops whatever the context.
LoopGuardAlways(context) == TRUE

LoopGuard(context) == context

\* Line 133: on_draw is dispatched.
\* A variant without the test.
DrawGuardAlways(context) == TRUE

DrawGuard(context) == context

\* Line 137: flip is called.
FlipGuard(context) == context

\* Line 130: active = window.current_view or window
ActiveOf(w, id) == IF w.current_view # None THEN w.current_view ELSE id

\* The window after a callback: closed or not, with the view it shows.
AfterCallback(w, lost, view) ==
    LET w1 == IF lost THEN WindowClose(w) ELSE w
    IN  [w1 EXCEPT !.current_view = view]

\* The callback op is called on target; the window id is run()'s window.
Dispatch(op, target, dt, id) ==
    \E lost \in BOOLEAN, view \in Views :
        /\ lost => windows[id].context
        /\ log' = Append(log, RunEntry(op, target, dt, windows[id], lost))
        /\ windows' = [windows EXCEPT ![id] = AfterCallback(@, lost, view)]

\* Lines 112-118: get_window() and the choice of the branch.
RunEnter ==
    /\ run.pc = "idle"
    /\ IF _window = None
       THEN run' = [run EXCEPT !.pc = "raised"]
       ELSE LET mode == RunMode(environ.ARCADE_TEST, windows[_window].headless)
            IN  run' = [run EXCEPT !.pc = mode, !.mode = mode, !.window = _window]
    /\ UNCHANGED <<_window, windows, environ, log>>

\* Line 116: window.on_update(1.0 / 60.0)
TestUpdate ==
    /\ run.pc = "test"
    /\ Dispatch("on_update", run.window, "1/60", run.window)
    /\ run' = [run EXCEPT !.pc = "test_draw"]
    /\ UNCHANGED <<_window, environ>>

\* Line 117: window.on_draw(); run() returns.
TestDraw ==
    /\ run.pc = "test_draw"
    /\ Dispatch("on_draw", run.window, None, run.window)
    /\ run' = [run EXCEPT !.pc = "returned"]
    /\ UNCHANGED <<_window, environ>>

\* Lines 128-132: the loop's test, the active object, on_update.  The first
\* delta time is the draw rate, the later ones the time elapsed.
HeadlessUpdate ==
    /\ run.pc = "headless"
    /\ LoopGuard(windows[run.window].context)
    /\ run.iterations < MaxIterations
    /\ LET active == ActiveOf(windows[run.window], run.window)
           dt == IF run.iterations = 0 THEN "draw_rate" ELSE "elapsed"
       IN  /\ Dispatch("on_update", active, dt, run.window)
           /\ run' = [run EXCEPT !.pc = "draw", !.active = active,
                                 !.iterations = @ + 1]
    /\ UNCHANGED <<_window, environ>>

\* Line 128: the loop's test fails; run() returns.
HeadlessReturn ==
    /\ run.pc = "headless"
    /\ ~LoopGuard(windows[run.window].context)
    /\ run' = [run EXCEPT !.pc = "returned"]
    /\ UNCHANGED <<_window, windows, environ, log>>

\* Lines 133-134
HeadlessDraw ==
    /\ run.pc = "draw"
    /\ IF DrawGuard(windows[run.window].context)
       THEN Dispatch("on_draw", run.active, None, run.window)
       ELSE UNCHANGED <<windows, log>>
    /\ run' = [run EXCEPT !.pc = "flip"]
    /\ UNCHANGED <<_window, environ>>

\* Lines 136-141
HeadlessFlip ==
    /\ run.pc = "flip"
    /\ IF FlipGuard(windows[run.window].context)
       THEN log' = Append(log, RunEntry("flip", run.window, None,
                                        windows[run.window], FALSE))
       ELSE UNCHANGED log
    /\ run' = [run EXCEPT !.pc = "headless"]
    /\ UNCHANGED <<_window, windows, environ>>

\* Lines 142-180: pyglet's event loop, inside a timer resolution of 10 ms
\* on win32; it runs until the application exits.
EventLoop ==
    /\ run.pc = "event_loop"
    /\ LET loop == RunEntry("pyglet.app.run", run.window, "draw_rate",
                            windows[run.window], FALSE)
           timer(op) == RunEntry(op, None, None, windows[run.window], FALSE)
       IN  log' = IF environ.platform = "win32"
                  THEN log \o <<timer("timeBeginPeriod"), loop,
                                timer("timeEndPeriod")>>
                  ELSE Append(log, loop)
    /\ run' = [run EXCEPT !.pc = "returned"]
    /\ UNCHANGED <<_window, windows, environ>>

----------------------------------------------------------------------------
(* The game after MyGame(...) and setup() *)

WallAt(column, row) ==
    Sprite((column + 1) * WALL_SPACING, (row + 1) * WALL_SIZE, WALL_SIZE, WALL_SIZE)

\* setup(), lines 84-94: the cells are visited in order and a cell's sprite
\* is appended when its random draw keeps it.
RECURSIVE SetupWalls(_, _)
SetupWalls(cells, kept) ==
    IF cells = <<>> THEN <<>>
    ELSE (IF Head(cells) \in kept
          THEN <<WallAt(Head(cells)[1], Head(cells)[2])>>
          ELSE <<>>) \o SetupWalls(Tail(cells), kept)

\* The cells <<column, row>> whose draw is left open: the two walls of the
\* first column next to the line from the player to the enemy.  The draws
\* of the other cells are taken to drop them.
OpenCells == << <<0, 4>>, <<0, 5>> >>

InitFlags ==
    /\ left_pressed = FALSE
    /\ right_pressed = FALSE
    /\ up_pressed = FALSE
    /\ down_pressed = FALSE

InitTrace ==
    /\ cam_calls = <<>>
    /\ scroll = [pos0 |-> cam.position, taken |-> {}]
    /\ frames = 0
    /\ lines = <<>>
    /\ key_events = [key \in Keys |-> "none"]

\* The window commands while the game is looked at alone: the game's window
\* is the current one and run() has not been called.
InitWindowOfGame ==
    /\ _window = "game"
    /\ windows = [w \in Windows |-> NewWindow(FALSE, TRUE, None)]
    /\ environ = [ARCADE_TEST |-> None, platform |-> "linux"]
    /\ run = NoRun
    /\ log = <<>>

Init ==
    /\ player = Sprite(50, 350, PLAYER_WIDTH, PLAYER_HEIGHT)
    /\ enemy_list = <<Sprite(350, 350, PLAYER_WIDTH, PLAYER_HEIGHT)>>
    /\ \E kept \in SUBSET {OpenCells[i] : i \in 1..Len(OpenCells)} :
           wall_list = SetupWalls(OpenCells, kept)
    /\ cam = NewCamera
    /\ InitFlags
    /\ InitTrace
    /\ InitWindowOfGame

Next ==
    \/ KeyPress /\ UNCHANGED <<key_events, wvars>>
    \/ KeyRelease /\ UNCHANGED <<key_events, wvars>>
    \/ on_update /\ UNCHANGED <<key_events, wvars>>
    \/ on_draw /\ UNCHANGED <<key_events, wvars>>

Spec == Init /\ [][Next]_vars

----------------------------------------------------------------------------
(* The scrolling of on_update on any camera position and player position:  *)
(* the player starts at an offset from the camera's centre that puts its   *)
(* box inside the deadzone, on a boundary of it, or beyond one.            *)

CamStarts == {<<400, 300>>, <<-75, 1020>>}
OffsetsX == {-377, -127, -126, 0, 126, 127}
OffsetsY == {-19, -18, 0, 18, 19}

InitCam ==
    /\ \E c \in CamStarts, ox \in OffsetsX, oy \in OffsetsY :
        /\ cam = [position |-> c]
        /\ player = Sprite(c[1] + ox, c[2] + oy, PLAYER_WIDTH, PLAYER_HEIGHT)
        /\ enemy_list = <<Sprite(c[1] + 300, c[2], PLAYER_WIDTH, PLAYER_HEIGHT)>>
        /\ wall_list \in {<<>>, <<Sprite(c[1] + 58, c[2], WALL_SIZE, WALL_SIZE)>>}
    /\ InitFlags
    /\ InitTrace
    /\ InitWindowOfGame

NextCam ==
    \/ KeyPress /\ UNCHANGED <<key_events, wvars>>
    \/ KeyRelease /\ UNCHANGED <<key_events, wvars>>
    \/ on_update /\ UNCHANGED <<key_events, wvars>>

SpecCam == InitCam /\ [][NextCam]_vars

----------------------------------------------------------------------------
(* The line-of-sight query on any two points of a small grid and any list  *)
(* of occluders taken from a few boxes, some of them degenerate.           *)

MaxCoord == 4
MaxWalls == 2

LosPoints == (0..MaxCoord) \X (0..MaxCoord)

LosBoxes ==
    {Sprite(2, 2, 2, 2), Sprite(3, 3, 2, 4), Sprite(2, 2, 0, 2), Sprite(2, 3, 2, 0)}

\* Lists of at most MaxWalls boxes, no box twice.
LosWallLists ==
    UNION {{f \in [1..n -> LosBoxes] : \A i, j \in 1..n : f[i] = f[j] => i = j} :
              n \in 0..MaxWalls}

InitLos ==
    /\ \E a \in LosPoints, b \in LosPoints :
        /\ player = Sprite(a[1], a[2], PLAYER_WIDTH, PLAYER_HEIGHT)
        /\ enemy_list = <<Sprite(b[1], b[2], PLAYER_WIDTH, PLAYER_HEIGHT)>>
    /\ wall_list \in LosWallLists
    /\ cam = NewCamera
    /\ InitFlags
    /\ InitTrace
    /\ InitWindowOfGame

NextLos == on_draw /\ UNCHANGED <<key_events, wvars>>

SpecLos == InitLos /\ [][NextLos]_vars

----------------------------------------------------------------------------
(* The deadzone of a camera position, written from its definition: the     *)
(* view rectangle inset by VIEWPORT_MARGIN on every side.                  *)

DzLeft(pos) == pos[1] - SCREEN_WIDTH \div 2 + VIEWPORT_MARGIN
DzRight(pos) == pos[1] + SCREEN_WIDTH \div 2 - VIEWPORT_MARGIN
DzTop(pos) == pos[2] + SCREEN_HEIGHT \div 2 - VIEWPORT_MARGIN
DzBottom(pos) == pos[2] - SCREEN_HEIGHT \div 2 + VIEWPORT_MARGIN

InsideDeadzone(p, pos) ==
    /\ Left(p) >= DzLeft(pos)
    /\ Right(p) <= DzRight(pos)
    /\ Top(p) <= DzTop(pos)
    /\ Bottom(p) >= DzBottom(pos)

\* The deadzone is wider and taller than the box of p.
DeadzoneFits(p) ==
    /\ SCREEN_WIDTH - 2 * VIEWPORT_MARGIN > p.width
    /\ SCREEN_HEIGHT - 2 * VIEWPORT_MARGIN > p.height

\* An on_update has run; player is the box after its physics step and
\* scroll.pos0 the camera position it found.
Updated == frames > 0

Abs(x) == IF x < 0 THEN -x ELSE x

----------------------------------------------------------------------------
\* C1: if after the physics step no edge of the player is strictly beyond
\* its deadzone boundary (an edge exactly on a boundary included), on_update
\* does not assign the camera position, does not call cam.use(), and the
\* camera position after the call is the one before it.
CameraNoOp ==
    (Updated /\ InsideDeadzone(player, scroll.pos0))
        => (cam_calls = <<>> /\ cam.position = scroll.pos0)

\* C1 witness: an on_update that left the camera alone with the player's
\* left and top edges exactly on their boundaries.
CameraNoOpWitness ==
    /\ Updated
    /\ InsideDeadzone(player, scroll.pos0)
    /\ Left(player) = DzLeft(scroll.pos0)
    /\ Top(player) = DzTop(scroll.pos0)
    /\ cam_calls = <<>>

\* C2: for each direction whose boundary the player's edge has crossed, the
\* camera centre moves on that axis by exactly the crossing amount, so the
\* boundary of the new camera position coincides with the player's edge; an
\* axis with no crossing keeps its camera coordinate.
BoundaryExactCorrection ==
    Updated =>
        LET pos0 == scroll.pos0
            pos == cam.position
            crossL == Left(player) < DzLeft(pos0)
            crossR == Right(player) > DzRight(pos0)
            crossT == Top(player) > DzTop(pos0)
            crossB == Bottom(player) < DzBottom(pos0)
        IN  /\ crossL => /\ pos[1] = pos0[1] + (Left(player) - DzLeft(pos0))
                         /\ DzLeft(pos) = Left(player)
            /\ crossR => /\ pos[1] = pos0[1] + (Right(player) - DzRight(pos0))
                         /\ DzRight(pos) = Right(player)
            /\ crossT => /\ pos[2] = pos0[2] + (Top(player) - DzTop(pos0))
                         /\ DzTop(pos) = Top(player)
            /\ crossB => /\ pos[2] = pos0[2] + (Bottom(player) - DzBottom(pos0))
                         /\ DzBottom(pos) = Bottom(player)
            /\ (~crossL /\ ~crossR) => pos[1] = pos0[1]
            /\ (~crossT /\ ~crossB) => pos[2] = pos0[2]

\* C2 witness: the top boundary alone was crossed; the camera moved up by
\* the crossing amount and kept its x.
BoundaryExactCorrectionWitness ==
    /\ Updated
    /\ Top(player) > DzTop(scroll.pos0)
    /\ Left(player) >= DzLeft(scroll.pos0)
    /\ Right(player) <= DzRight(scroll.pos0)
    /\ cam.position[2] = scroll.pos0[2] + (Top(player) - DzTop(scroll.pos0))
    /\ cam.position[1] = scroll.pos0[1]

\* C3: after an on_update that moved the camera, a second on_update in which
\* the player does not move crosses no boundary and leaves the camera as it
\* is.
CorrectionIdempotent ==
    [][(/\ frames' = frames + 1
        /\ cam_calls # <<>>
        /\ Position(player') = Position(player))
          => (/\ scroll'.taken = {}
              /\ cam_calls' = <<>>
              /\ cam' = cam)]_vars

\* C3 witness: the state after a second on_update that did not move the
\* player and did nothing to a camera which the first on_update had moved.
CorrectionIdempotentWitness ==
    /\ frames = 2
    /\ cam.position \notin CamStarts
    /\ player.change_x = 0
    /\ player.change_y = 0
    /\ scroll.taken = {}
    /\ cam_calls = <<>>

\* C4: with a deadzone wider and taller than the player's box, after every
\* on_update the player's box lies inside the deadzone of the resulting
\* camera view.
DeadzoneInvariant ==
    (Updated /\ DeadzoneFits(player)) => InsideDeadzone(player, cam.position)

\* C4 witness: an on_update scrolled right and down and the box is on the
\* right and bottom boundaries of the new view.
DeadzoneInvariantWitness ==
    /\ Updated
    /\ DeadzoneFits(player)
    /\ scroll.taken = {"right", "down"}
    /\ Right(player) = DzRight(cam.position)
    /\ Bottom(player) = DzBottom(cam.position)

\* C5: with a deadzone wider (taller) than the box, one on_update never
\* takes both the left and the right scroll (both the up and the down
\* scroll).
OneCorrectionPerAxis ==
    (Updated /\ DeadzoneFits(player))
        => /\ ~({"left", "right"} \subseteq scroll.taken)
           /\ ~({"up", "down"} \subseteq scroll.taken)

\* C5 witness: an on_update that scrolled on both axes, once on each.
OneCorrectionPerAxisWitness ==
    /\ Updated
    /\ DeadzoneFits(player)
    /\ scroll.taken = {"left", "up"}

\* The player's left edge is d beyond the left boundary and no other
\* boundary is crossed.
LeftCrossedBy(d) ==
    /\ Updated
    /\ Left(player) = DzLeft(scroll.pos0) - d
    /\ Right(player) <= DzRight(scroll.pos0)
    /\ Top(player) <= DzTop(scroll.pos0)
    /\ Bottom(player) >= DzBottom(scroll.pos0)

\* C6, as stated: with the left edge exactly VIEWPORT_MARGIN + 1 beyond the
\* left boundary and no other boundary crossed, the camera's x-translation
\* is exactly 1 in magnitude.
LeftMarginPlusOneMovesOne ==
    LeftCrossedBy(VIEWPORT_MARGIN + 1)
        => Abs(cam.position[1] - scroll.pos0[1]) = 1

\* C6, amended: with the left edge exactly VIEWPORT_MARGIN + 1 beyond the
\* left boundary and no other boundary crossed, the camera's x-translation
\* is exactly VIEWPORT_MARGIN + 1 in magnitude (to the left); it is exactly
\* 1 when the left edge is exactly 1 beyond the left boundary.
LeftCrossingMovesByCrossing ==
    /\ LeftCrossedBy(VIEWPORT_MARGIN + 1)
          => cam.position[1] - scroll.pos0[1] = -(VIEWPORT_MARGIN + 1)
    /\ LeftCrossedBy(1) => cam.position[1] - scroll.pos0[1] = -1

\* C6 witness: the left edge was VIEWPORT_MARGIN + 1 beyond the left
\* boundary and the camera moved left by that much, y unchanged.
LeftCrossingWitness ==
    /\ LeftCrossedBy(VIEWPORT_MARGIN + 1)
    /\ cam.position[1] = scroll.pos0[1] - (VIEWPORT_MARGIN + 1)
    /\ cam.position[2] = scroll.pos0[2]
    /\ cam_calls = <<"set_position", "use">>

----------------------------------------------------------------------------
(* Geometry written from its definition, by enumeration.  The segment from *)
(* a to b meets the open (closed) box of w in an interval of t whose ends  *)
(* are 0, 1 or fractions over |dx| or |dy|; so it meets the box if and     *)
(* only if one of the points a + (k / n) * (b - a), k in 0..n, with        *)
(* n = 2 * |dx| * |dy| (zeros taken as 1), lies in it.                     *)

Observer == Position(player)
Target == Position(enemy_list[1])

SampleCount(a, b) ==
    LET dx == Abs(b[1] - a[1])
        dy == Abs(b[2] - a[2])
    IN  2 * (IF dx = 0 THEN 1 ELSE dx) * (IF dy = 0 THEN 1 ELSE dy)

\* Some point of the segment lies strictly inside the box of w.
EntersInterior(a, b, w) ==
    LET n == SampleCount(a, b)
    IN  \E k \in 0..n :
            LET x == n * a[1] + k * (b[1] - a[1])
                y == n * a[2] + k * (b[2] - a[2])
            IN  /\ n * Left(w) < x
                /\ x < n * Right(w)
                /\ n * Bottom(w) < y
                /\ y < n * Top(w)

\* Some point of the segment lies in the box of w or on its boundary.
Touches(a, b, w) ==
    LET n == SampleCount(a, b)
    IN  \E k \in 0..n :
            LET x == n * a[1] + k * (b[1] - a[1])
                y == n * a[2] + k * (b[2] - a[2])
            IN  /\ n * Left(w) <= x
                /\ x <= n * Right(w)
                /\ n * Bottom(w) <= y
                /\ y <= n * Top(w)

Degenerate(w) == w.width = 0 \/ w.height = 0

\* The cutoffs: none, zero, a short one, one that some pairs of grid points
\* exceed, and one that none does.
Cutoffs == {<<>>} \cup {<<d>> : d \in {0, 1, MaxCoord, 2 * MaxCoord}}

WithinCutoff(a, b, md) ==
    \/ md = <<>>
    \/ (b[1] - a[1]) * (b[1] - a[1]) + (b[2] - a[2]) * (b[2] - a[2]) <= md[1] * md[1]

Drawn == lines # <<>>

\* C7: for two distinct points within the cutoff, has_line_of_sight is
\* false if and only if the segment passes through the interior of some
\* occluder, whatever the order of the occluders; on_draw draws the line
\* red exactly when the result is true.
VisibilityResult ==
    /\ Observer # Target =>
         \A md \in Cutoffs :
            WithinCutoff(Observer, Target, md) =>
               (has_line_of_sight(Observer, Target, wall_list, md)
                  <=> ~\E i \in 1..Len(wall_list) :
                          EntersInterior(Observer, Target, wall_list[i]))
    /\ Drawn =>
         ((lines[1].color = "RED")
             <=> has_line_of_sight(Observer, Target, wall_list, <<>>))

\* C7 witness: two occluders, the segment clear of the first and through
\* the interior of the second; the line is drawn white.
VisibilityResultWitness ==
    /\ Drawn
    /\ Observer # Target
    /\ Len(wall_list) = 2
    /\ ~Touches(Observer, Target, wall_list[1])
    /\ ~Degenerate(wall_list[1])
    /\ EntersInterior(Observer, Target, wall_list[2])
    /\ lines[1].color = "WHITE"

\* C8: has_line_of_sight(A, B, S) = has_line_of_sight(B, A, S).
VisibilitySymmetric ==
    \A md \in Cutoffs :
        has_line_of_sight(Observer, Target, wall_list, md)
            = has_line_of_sight(Target, Observer, wall_list, md)

\* C8 witness: the observer stands on the edge of an occluder which the
\* segment then enters, the target is outside it; the line is white.
VisibilitySymmetricWitness ==
    /\ Drawn
    /\ Len(wall_list) = 1
    /\ Observer[1] = Left(wall_list[1])
    /\ Target[1] > Right(wall_list[1])
    /\ EntersInterior(Observer, Target, wall_list[1])
    /\ lines[1].color = "WHITE"
    /\ ~has_line_of_sight(Target, Observer, wall_list, <<>>)

\* C9: when observer and target are the same point, has_line_of_sight is
\* true for every occluder list and every cutoff, zero included.
SamePointVisible ==
    Observer = Target =>
        /\ \A md \in Cutoffs : has_line_of_sight(Observer, Target, wall_list, md)
        /\ Drawn => lines[1].color = "RED"

\* C9 witness: observer = target, a point strictly inside an occluder; the
\* result is true with cutoff zero and the line is red.
SamePointVisibleWitness ==
    /\ Drawn
    /\ Observer = Target
    /\ wall_list # <<>>
    /\ EntersInterior(Observer, Target, wall_list[1])
    /\ has_line_of_sight(Observer, Target, wall_list, <<0>>)
    /\ lines[1].color = "RED"

\* The segment touches w without entering its interior.
Tangent(a, b, w) == Touches(a, b, w) /\ ~EntersInterior(a, b, w)

\* C10: when every occluder is degenerate or only touched by the segment
\* (along an edge or at a corner), has_line_of_sight is true.
TangencyDoesNotBlock ==
    (\A i \in 1..Len(wall_list) :
        Degenerate(wall_list[i]) \/ Tangent(Observer, Target, wall_list[i]))
      => /\ has_line_of_sight(Observer, Target, wall_list, <<>>)
         /\ Drawn => lines[1].color = "RED"

\* C10 witness: the segment runs along the whole bottom edge of an occluder
\* of positive size, a degenerate occluder follows; the line is red.
TangencyDoesNotBlockWitness ==
    /\ Drawn
    /\ Len(wall_list) = 2
    /\ ~Degenerate(wall_list[1])
    /\ Observer[2] = Bottom(wall_list[1])
    /\ Target[2] = Bottom(wall_list[1])
    /\ Observer[1] < Left(wall_list[1])
    /\ Target[1] > Right(wall_list[1])
    /\ Degenerate(wall_list[2])
    /\ Touches(Observer, Target, wall_list[2])
    /\ lines[1].color = "RED"

----------------------------------------------------------------------------
(* The window handle under any calls of set_window, get_window and         *)
(* close_window, from a module just imported: no window is set.            *)

InitGameIdle ==
    /\ player = Sprite(50, 350, PLAYER_WIDTH, PLAYER_HEIGHT)
    /\ enemy_list = <<Sprite(350, 350, PLAYER_WIDTH, PLAYER_HEIGHT)>>
    /\ wall_list = <<>>
    /\ cam = NewCamera
    /\ InitFlags
    /\ InitTrace

InitWin ==
    /\ InitGameIdle
    /\ _window = None
    /\ windows = [w \in Windows |-> NewWindow(FALSE, TRUE, None)]
    /\ environ = [ARCADE_TEST |-> None, platform |-> "linux"]
    /\ run = NoRun
    /\ log = <<>>

NextWin ==
    \/ SetWindow /\ UNCHANGED <<gvars, key_events>>
    \/ get_window /\ UNCHANGED <<gvars, key_events>>
    \/ close_window /\ UNCHANGED <<gvars, key_events>>

SpecWin == InitWin /\ [][NextWin]_vars

\* The handle a history of calls leaves, told from the calls alone: the
\* argument of the last set_window, or None when there was none or a
\* close_window was called after it.
RECURSIVE ActiveAfter(_)
ActiveAfter(l) ==
    IF l = <<>> THEN None
    ELSE LET e == l[Len(l)]
             before == SubSeq(l, 1, Len(l) - 1)
         IN  IF e.op = "set_window" THEN e.arg
             ELSE IF e.op = "close_window" THEN None
             ELSE ActiveAfter(before)

\* C11: after any calls of set_window and close_window, get_window returns
\* the window last passed to set_window, and raises RuntimeError exactly when
\* no window is active (none was set, None was set last, or close_window ran
\* since the last set_window); get_window does not change the handle.
CurrentWindowHandle ==
    /\ \A i \in 1..Len(log) :
          log[i].op = "get_window" =>
             LET active == ActiveAfter(SubSeq(log, 1, i - 1))
             IN  /\ (log[i].arg = "RuntimeError") <=> (active = None)
                 /\ active # None => log[i].arg = active
    /\ _window = ActiveAfter(log)

\* C11 witness: get_window returned a window that was set over another one,
\* then raised after close_window, and raised again after a further call of
\* get_window.
CurrentWindowHandleWitness ==
    /\ Len(log) >= 4
    /\ \E i \in 3..Len(log) :
          /\ log[i - 2] = Entry("set_window", "other")
          /\ log[i - 1] = Entry("set_window", "game")
          /\ log[i] = Entry("get_window", "game")
    /\ log[Len(log)] = Entry("get_window", "RuntimeError")
    /\ log[Len(log) - 1].op = "gc.collect"

\* The number of entries of l with operation op and argument w.
Count(l, op, w) == Cardinality({i \in 1..Len(l) : l[i] = Entry(op, w)})

\* C12: with an active window close_window calls that window's close()
\* exactly once, then clears the handle, then collects garbage; with no
\* active window it does nothing.  So a window is closed by close_window at
\* most once for each time it was set, and a close_window that follows a
\* close_window does nothing.
CloseWindowOnce ==
    /\ \A i \in 1..Len(log) :
          log[i].op = "close_window" =>
             LET active == ActiveAfter(SubSeq(log, 1, i - 1))
             IN  IF active # None
                 THEN /\ i + 3 <= Len(log)
                      /\ log[i + 1] = Entry("close", active)
                      /\ log[i + 2] = Entry("clear_handle", active)
                      /\ log[i + 3] = Entry("gc.collect", None)
                 ELSE i = Len(log) \/ log[i + 1].op \in CallOps
    /\ \A i \in 1..Len(log) :
          /\ log[i].op = "close" => (i > 1 /\ log[i - 1].op = "close_window")
          /\ log[i].op = "clear_handle" => (i > 1 /\ log[i - 1].op = "close")
          /\ log[i].op = "gc.collect" => (i > 1 /\ log[i - 1].op = "clear_handle")
    /\ \A w \in Windows :
          /\ windows[w].closed = Count(log, "close", w)
          /\ windows[w].closed <= Count(log, "set_window", w)
    /\ (log # <<>> /\ log[Len(log)].op = "gc.collect") => _window = None

\* C12 witness: the game's window was set, close_window closed it, and two
\* more calls of close_window did nothing.
CloseWindowOnceWitness ==
    /\ Len(log) = 7
    /\ log[1] = Entry("set_window", "game")
    /\ log[2] = Entry("close_window", "game")
    /\ log[5] = Entry("gc.collect", None)
    /\ log[6] = Entry("close_window", None)
    /\ log[7] = Entry("close_window", None)
    /\ windows["game"].closed = 1
    /\ _window = None

----------------------------------------------------------------------------
(* The game with the last event of every key remembered *)

NextKeys ==
    \/ \E key \in Keys :
          /\ on_key_press(key)
          /\ key_events' = [key_events EXCEPT ![key] = "press"]
          /\ UNCHANGED wvars
    \/ \E key \in Keys :
          /\ on_key_release(key)
          /\ key_events' = [key_events EXCEPT ![key] = "release"]
          /\ UNCHANGED wvars
    \/ on_update /\ UNCHANGED <<key_events, wvars>>

SpecKeys == Init /\ [][NextKeys]_vars

\* C13: a press or release of an arrow key sets that key's flag alone and an
\* event of another key sets none, so each flag tells whether the last event
\* of its own key was a press (False when it had none).
KeyFlagsIndependent ==
    /\ up_pressed = (key_events["UP"] = "press")
    /\ down_pressed = (key_events["DOWN"] = "press")
    /\ left_pressed = (key_events["LEFT"] = "press")
    /\ right_pressed = (key_events["RIGHT"] = "press")

\* C13 witness: UP and DOWN were released after a press, LEFT is pressed,
\* RIGHT had no event, another key was pressed, and a frame has passed.
KeyFlagsIndependentWitness ==
    /\ key_events["UP"] = "release"
    /\ key_events["DOWN"] = "release"
    /\ key_events["LEFT"] = "press"
    /\ key_events["RIGHT"] = "none"
    /\ key_events["SPACE"] = "press"
    /\ ~up_pressed /\ ~down_pressed /\ left_pressed /\ ~right_pressed
    /\ frames > 0

----------------------------------------------------------------------------
(* run() called once, on any window (headless or not, with or without a    *)
(* context or a view), with ARCADE_TEST unset, empty or set, or on none.   *)

InitRun ==
    /\ InitGameIdle
    /\ _window \in {None, "game"}
    /\ \E headless \in BOOLEAN, context \in BOOLEAN, view \in Views :
          windows = [w \in Windows |->
                        IF w = "game" THEN NewWindow(headless, context, view)
                        ELSE NewWindow(FALSE, TRUE, None)]
    /\ environ \in [ARCADE_TEST : {None, "", "1"}, platform : {"linux", "win32"}]
    /\ run = NoRun
    /\ log = <<>>

NextRun ==
    \/ RunEnter /\ UNCHANGED <<gvars, key_events>>
    \/ TestUpdate /\ UNCHANGED <<gvars, key_events>>
    \/ TestDraw /\ UNCHANGED <<gvars, key_events>>
    \/ HeadlessUpdate /\ UNCHANGED <<gvars, key_events>>
    \/ HeadlessReturn /\ UNCHANGED <<gvars, key_events>>
    \/ HeadlessDraw /\ UNCHANGED <<gvars, key_events>>
    \/ HeadlessFlip /\ UNCHANGED <<gvars, key_events>>
    \/ EventLoop /\ UNCHANGED <<gvars, key_events>>

SpecRun == InitRun /\ [][NextRun]_vars

\* run() took the headless branch.
Headless == run.mode = "headless"

\* The context of run()'s window now.
ContextNow == windows[run.window].context

\* C14: in headless run() every iteration dispatches on_update, then
\* on_draw, then window.flip(), on the active view or else the window; no
\* on_draw and no flip happens while the context is falsy: a context lost
\* during on_update is followed by neither, one lost during on_draw by no
\* flip.
HeadlessOrderAndGuard ==
    Headless =>
        /\ \A i \in 1..Len(log) :
              /\ log[i].op \in {"on_update", "on_draw", "flip"}
              /\ log[i].op \in {"on_draw", "flip"} => log[i].ctx
              /\ log[i].op = "on_update" =>
                    /\ i = 1 \/ log[i - 1].op = "flip"
                    /\ log[i].arg = (IF log[i].view # None THEN log[i].view
                                     ELSE run.window)
              /\ log[i].op = "on_draw" =>
                    /\ i > 1
                    /\ log[i - 1].op = "on_update"
                    /\ ~log[i - 1].lost
                    /\ log[i].arg = log[i - 1].arg
              /\ log[i].op = "flip" =>
                    /\ i > 1
                    /\ log[i - 1].op = "on_draw"
                    /\ ~log[i - 1].lost
                    /\ log[i].arg = run.window
        /\ (run.pc \in {"headless", "returned"} /\ log # <<>>) =>
              (log[Len(log)].op = "flip" \/ log[Len(log)].lost)

\* C14 witness: a whole iteration on the view, then an iteration in which
\* on_update lost the context; the loop is back at its test with nothing
\* after that on_update.
HeadlessOrderAndGuardWitness ==
    /\ Headless
    /\ run.pc = "headless"
    /\ Len(log) = 4
    /\ log[1].op = "on_update" /\ log[1].arg = "view"
    /\ log[2].op = "on_draw" /\ log[2].arg = "view"
    /\ log[3].op = "flip" /\ log[3].arg = "game"
    /\ log[4].op = "on_update" /\ log[4].lost
    /\ ~ContextNow

\* C15: in headless run(), once the context is falsy nothing more is
\* dispatched (no further on_update in particular) and run() goes on to
\* return; it has not returned while the context is truthy; with a context
\* falsy on entry nothing is dispatched at all.
HeadlessTermination ==
    Headless =>
        /\ \A i \in 1..Len(log) :
              /\ log[i].ctx
              /\ log[i].lost => i = Len(log)
        /\ run.pc = "returned" =>
              /\ ~ContextNow
              /\ log = <<>> \/ log[Len(log)].lost
        /\ (~ContextNow /\ run.pc # "returned") => ENABLED NextRun
        /\ (~ContextNow /\ log # <<>>) => log[Len(log)].lost

\* C15 witness: run() has returned after an iteration whose on_draw lost
\* the context.
HeadlessTerminationWitness ==
    /\ Headless
    /\ run.pc = "returned"
    /\ Len(log) = 2
    /\ log[1].op = "on_update"
    /\ log[2].op = "on_draw" /\ log[2].lost
    /\ ~ContextNow

\* C16: with ARCADE_TEST set (non-empty) run() dispatches one on_update with
\* delta 1/60, then one on_draw, both on the current window, and returns,
\* headless or not, with no flip and no event loop; with no active window it
\* raises RuntimeError before anything is dispatched.
TestModeRun ==
    /\ run.pc # "idle" =>
          /\ (run.mode = "test") <=> (EnvSet(environ.ARCADE_TEST) /\ _window # None)
          /\ (run.pc = "raised") <=> (_window = None)
          /\ _window = None => log = <<>>
    /\ run.mode = "test" =>
          /\ run.pc \in {"test", "test_draw", "returned"}
          /\ run.pc = "test" => log = <<>>
          /\ run.pc # "test" =>
                /\ Len(log) >= 1
                /\ log[1].op = "on_update"
                /\ log[1].arg = _window
                /\ log[1].dt = "1/60"
          /\ run.pc = "test_draw" => Len(log) = 1
          /\ run.pc = "returned" =>
                /\ Len(log) = 2
                /\ log[2].op = "on_draw"
                /\ log[2].arg = _window

\* C16 witness: run() has returned in test mode on a headless window that
\* shows a view and whose context on_update lost: on_update and on_draw were
\* called on the window all the same.
TestModeRunWitness ==
    /\ run.mode = "test"
    /\ run.pc = "returned"
    /\ windows["game"].headless
    /\ Len(log) = 2
    /\ log[1].op = "on_update" /\ log[1].arg = "game" /\ log[1].view = "view"
    /\ log[1].lost
    /\ log[2].op = "on_draw" /\ log[2].arg = "game" /\ ~log[2].ctx

----------------------------------------------------------------------------
\* C17: the velocity on_update gives the player is told by the four key
\* flags of that frame alone: change_x is -MOVEMENT_SPEED iff left is pressed
\* and right is not, MOVEMENT_SPEED iff right is pressed and left is not, 0
\* otherwise; change_y likewise with down and up.
VelocityFromKeys ==
    [][frames' = frames + 1 =>
          /\ (player'.change_x = -MOVEMENT_SPEED) <=> (left_pressed /\ ~right_pressed)
          /\ (player'.change_x = MOVEMENT_SPEED) <=> (right_pressed /\ ~left_pressed)
          /\ (player'.change_x = 0) <=> (left_pressed <=> right_pressed)
          /\ (player'.change_y = -MOVEMENT_SPEED) <=> (down_pressed /\ ~up_pressed)
          /\ (player'.change_y = MOVEMENT_SPEED) <=> (up_pressed /\ ~down_pressed)
          /\ (player'.change_y = 0) <=> (up_pressed <=> down_pressed)]_vars

\* C17 witness: after a frame that moved the player, a second frame with
\* left and right both pressed and up and down released left it with no
\* velocity, one step left and one up of where it began.
VelocityFromKeysWitness ==
    /\ frames = 2
    /\ left_pressed /\ right_pressed
    /\ key_events["UP"] = "release" /\ key_events["DOWN"] = "none"
    /\ player.change_x = 0
    /\ player.change_y = 0
    /\ Position(player) = <<50 - MOVEMENT_SPEED, 350 + MOVEMENT_SPEED>>

----------------------------------------------------------------------------
(* The scrolling of on_update with a deadzone narrower and lower than the  *)
(* player's box: a box of 320 x 120 against a deadzone of 300 x 100.       *)

WideOffsetsX == {-12, -3, 0, 4, 12}
WideOffsetsY == {-12, -2, 0, 5, 12}

InitWide ==
    /\ \E c \in CamStarts, ox \in WideOffsetsX, oy \in WideOffsetsY :
        /\ cam = [position |-> c]
        /\ player = Sprite(c[1] + ox, c[2] + oy, 320, 120)
        /\ enemy_list = <<Sprite(c[1] + 300, c[2], PLAYER_WIDTH, PLAYER_HEIGHT)>>
        /\ wall_list = <<>>
    /\ InitFlags
    /\ InitTrace
    /\ InitWindowOfGame

SpecWide == InitWide /\ [][NextCam]_vars

BothCrossedX ==
    /\ Updated
    /\ Left(player) < DzLeft(scroll.pos0)
    /\ Right(player) > DzRight(scroll.pos0)

BothCrossedY ==
    /\ Updated
    /\ Top(player) > DzTop(scroll.pos0)
    /\ Bottom(player) < DzBottom(scroll.pos0)

CrossingsAdd ==
    /\ BothCrossedX =>
          cam.position[1] = scroll.pos0[1]
                              + (Left(player) - DzLeft(scroll.pos0))
                              + (Right(player) - DzRight(scroll.pos0))
    /\ BothCrossedY =>
          cam.position[2] = scroll.pos0[2]
                              + (Top(player) - DzTop(scroll.pos0))
                              + (Bottom(player) - DzBottom(scroll.pos0))

====
